---- MODULE Spec2Model ----
(***************************************************************************)
(* A model of wordgraph6.go: a trie is built with Put, annotated and       *)
(* minimised by Optimise, and linearised by Flatten.                       *)
(*                                                                         *)
(* Pointers to treenode are indices into the node store `nodes`; 0 is nil *)
(* and Root (index 1) is the node NewDAWG returns.  A node's index is the  *)
(* order of its allocation, which is what a pointer identity amounts to.   *)
(***************************************************************************)
EXTENDS Integers, Sequences, FiniteSets, TLC

\* ---------------------------------------------------------------- bounds
MaxLen == 2           \* longest input word of Spec, in bytes
MaxWords == 3         \* most distinct words Put is called with under Spec

\* Input strings are sequences of bytes; 97, 98, 99 are 'a', 'b', 'c'.
Letters == {97, 98}
Words == UNION {[1..n -> Letters] : n \in 0..MaxLen}

\* Vocabularies of longer words, for CorpusSpec.
Corpora ==
    { {<<97, 97, 97>>, <<97, 97, 98>>, <<98, 97, 97>>, <<98, 98>>},
      {<<97, 97>>, <<97, 98>>, <<97, 99>>, <<98, 97>>, <<98, 98, 99>>},
      {<<97, 98>>, <<98, 97>>, <<98, 98>>, <<99, 97>>, <<99, 98>>} }
CorpusWords == UNION Corpora

\* ------------------------------------------------------- program constants
RuneError == 65533    \* utf8.RuneError, what DecodeRuneInString gives for ""
RootVal == 8709       \* the rune of the root, U+2205
RuneSelf == 128       \* utf8.RuneSelf: bytes below it are one-byte runes
Nil == 0
Root == 1

VARIABLES
    nodes,      \* the node store: Seq of treenode records
    idc,        \* the counter behind the id pointer handed to Put
    vocab,      \* the words Put has been called with
    lastPut,    \* "none", "fresh" (Put of a new word) or "again" (of an old one)
    pc,         \* where the pipeline stands
    j,          \* Optimise's loop variable, the height being processed
    firsts,     \* processLevel: the first children still to be examined
    others,     \* processLevel: the nodes a first child may be redirected to
    redirects,  \* the calls of redirect so far: <<victim, target>>
    built,      \* the store as Optimise found it (the trie Put built)
    output,     \* Flatten's outarray
    up,         \* Flatten's unfilledParents: node -> slot
    an          \* Flatten's allocatedNodes

vars == <<nodes, idc, vocab, lastPut, pc, j, firsts, others, redirects, built,
          output, up, an>>

\* ------------------------------------------------------------- node store
newTreenode ==
    [id |-> 0, val |-> 0, children |-> Nil, next |-> Nil, parents |-> <<>>,
     endofword |-> FALSE, hash |-> <<>>, level |-> 0, height |-> 0,
     firstchild |-> FALSE]

NewDAWG == [newTreenode EXCEPT !.id = -1, !.level = -1, !.val = RootVal]

\* The nodes of a sibling chain, from c to its end, in order.
RECURSIVE Chain(_, _)
Chain(ns, c) == IF c = Nil THEN <<>> ELSE <<c>> \o Chain(ns, ns[c].next)

Range(s) == {s[i] : i \in DOMAIN s}

\* --------------------------------------------------------------------- Put
\* utf8.DecodeRuneInString on a string of bytes: <<rune, size>>.  The input
\* strings are ASCII; a byte that starts no valid encoding gives RuneError
\* with size 1, and the empty string gives RuneError with size 0.
DecodeRuneInString(s) ==
    IF Len(s) = 0 THEN <<RuneError, 0>>
    ELSE IF s[1] < RuneSelf THEN <<s[1], 1>>
    ELSE <<RuneError, 1>>

Tail0(s, size) == SubSeq(s, size + 1, Len(s))

\* scanChain without the comparison of line 94: the scan runs to the last node.
RECURSIVE scanChain_NoMatch(_, _, _)
scanChain_NoMatch(ns, child, fchar) ==
    IF ns[child].next # Nil
    THEN scanChain_NoMatch(ns, ns[child].next, fchar)
    ELSE child

\* The chain's node that the scan of lines 93-101 / 132-140 stops at: the
\* first one with the wanted value, else the last one.
RECURSIVE scanChain(_, _, _)
scanChain(ns, child, fchar) ==
    IF ns[child].next # Nil /\ ns[child].val # fchar
    THEN scanChain(ns, ns[child].next, fchar)
    ELSE child

\* firstChildNode without line 86: the first child is given no parent.
firstChildNode_NoParent(t, fchar, id) ==
    [newTreenode EXCEPT !.id = id, !.val = fchar, !.level = -1,
                        !.firstchild = TRUE]

\* Lines 80-86 / 121-127: the node made for the first child of t.
firstChildNode(t, fchar, id) ==
    [newTreenode EXCEPT !.id = id, !.val = fchar, !.level = -1,
                        !.firstchild = TRUE, !.parents = <<t>>]

\* Lines 103-107 / 142-146: the node made for a further child of t.  It is
\* given no parents ("don't bother initialising for others").
siblingNode(t, fchar, id) ==
    [newTreenode EXCEPT !.id = id, !.val = fchar, !.level = -1]

\* A state of an insertion, st: the store and the id counter.
RECURSIVE put(_, _, _)
\* Lines 77-111 of Put, which lines 118-150 of put repeat.
putBody(st, t, s) ==
    LET d     == DecodeRuneInString(s)
        fchar == d[1]
        rest  == Tail0(s, d[2])
        new   == Len(st.nodes) + 1
    IN  IF st.nodes[t].children = Nil
        THEN LET child == firstChildNode(t, fchar, st.id)
                 st1 == [nodes |-> Append(st.nodes, child), id |-> st.id + 1]
                 st2 == put(st1, new, rest)
             IN  [st2 EXCEPT !.nodes[t].children = new]
        ELSE LET child == scanChain(st.nodes, st.nodes[t].children, fchar)
             IN  IF st.nodes[child].val = fchar
                 THEN put(st, child, rest)
                 ELSE LET newchild == siblingNode(t, fchar, st.id)
                          st1 == [nodes |-> Append(st.nodes, newchild),
                                  id |-> st.id + 1]
                          st2 == put(st1, new, rest)
                      IN  [st2 EXCEPT !.nodes[child].next = new]

put(st, t, s) == IF Len(s) = 0 THEN st ELSE putBody(st, t, s)

PutOn(st, t, s) ==
    LET st0 == IF st.nodes[t].id = 0
               THEN [st EXCEPT !.nodes[t].id = 0, !.id = st.id + 1]
               ELSE st
    IN  putBody(st0, t, s)

Put(s) ==
    /\ pc = "build"
    /\ LET st == PutOn([nodes |-> nodes, id |-> idc], Root, s)
       IN  /\ nodes' = st.nodes
           /\ idc' = st.id
    /\ vocab' = vocab \cup {s}
    /\ lastPut' = IF s \in vocab THEN "again" ELSE "fresh"
    /\ UNCHANGED <<pc, j, firsts, others, redirects, built, output, up, an>>

\* ---------------------------------------------------------------- Optimise
RECURSIVE computeLevels(_, _, _), computeLevelsFrom(_, _, _)
computeLevels(ns, t, level) ==
    LET ns1 == [ns EXCEPT ![t].level = level]
    IN  computeLevelsFrom(ns1, ns1[t].children, level + 1)

\* The loop of lines 198-200, from `child` on.
computeLevelsFrom(ns, child, level) ==
    IF child = Nil THEN ns
    ELSE computeLevelsFrom(computeLevels(ns, child, level), ns[child].next, level)

RECURSIVE maxFrom(_, _, _)
maxFrom(arr, i, m) ==
    IF i > Len(arr) THEN m
    ELSE maxFrom(arr, i + 1, IF arr[i] > m THEN arr[i] ELSE m)

max(arr) == maxFrom(arr, 1, 0)

RECURSIVE computeHeights(_, _), computeHeightsFrom(_, _)
computeHeights(ns, t) ==
    IF ns[t].children = Nil
    THEN [ns EXCEPT ![t].height = 0]
    ELSE LET ns1 == computeHeightsFrom(ns, ns[t].children)
             chain == Chain(ns1, ns1[t].children)
             childrenHeights == [i \in 1..Len(chain) |-> ns1[chain[i]].height]
         IN  [ns1 EXCEPT ![t].height = 1 + max(childrenHeights)]

\* The loop of lines 266-269, from `child` on.
computeHeightsFrom(ns, child) ==
    IF child = Nil THEN ns
    ELSE computeHeightsFrom(computeHeights(ns, child), ns[child].next)

\* []byte(string(r)): the UTF-8 encoding of a rune.
EncodeRune(r) ==
    IF r < 128 THEN <<r>>
    ELSE IF r < 2048 THEN <<192 + (r \div 64), 128 + (r % 64)>>
    ELSE IF r < 65536
         THEN <<224 + (r \div 4096), 128 + ((r \div 64) % 64), 128 + (r % 64)>>
         ELSE <<240 + (r \div 262144), 128 + ((r \div 4096) % 64),
                128 + ((r \div 64) % 64), 128 + (r % 64)>>

\* sha1.Sum as a digest without collisions: a digest stands for the bytes it
\* was computed from.  The zero value of the hash field is <<>>, which is the
\* digest of no data computeHashes ever hashes (data ends with the node's own
\* rune).
sha1Sum(data) == data

\* [nodes |-> the store with the hashes set, data |-> the bytes returned].
RECURSIVE computeHashes(_, _)
computeHashes(ns, t) ==
    LET r1 == IF ns[t].next # Nil
              THEN computeHashes(ns, ns[t].next)
              ELSE [nodes |-> ns, data |-> <<>>]
        r2 == IF ns[t].children # Nil
              THEN computeHashes(r1.nodes, ns[t].children)
              ELSE [nodes |-> r1.nodes, data |-> <<>>]
        data == r1.data \o r2.data \o EncodeRune(ns[t].val)
    IN  [nodes |-> [r2.nodes EXCEPT ![t].hash = sha1Sum(data)], data |-> data]

\* Lines 155-159: the three annotation passes.
annotate(ns) ==
    computeHashes(computeHeights(computeLevels(ns, Root, 0), Root), Root).nodes

\* The keys of the map collectNodesOfHeightX fills.
RECURSIVE collectNodesOfHeightX(_, _, _), collectFrom(_, _, _)
collectNodesOfHeightX(ns, t, height) ==
    IF ns[t].height = height THEN {t}
    ELSE IF ns[t].height > height THEN collectFrom(ns, ns[t].children, height)
    ELSE {}

collectFrom(ns, child, height) ==
    IF child = Nil THEN {}
    ELSE collectNodesOfHeightX(ns, child, height)
             \cup collectFrom(ns, ns[child].next, height)

\* eligible without the test of line 208: every node is a candidate.
eligible_All(ns, el) == TRUE

\* Line 208: whether processLevel takes `el` for a candidate.
eligible(ns, el) == ns[el].firstchild

\* The orders `for key := range nodesOfHeightX` may enumerate a map's keys in.
RECURSIVE Orders(_)
Orders(S) ==
    IF S = {} THEN {<<>>}
    ELSE UNION {{<<x>> \o p : p \in Orders(S \ {x})} : x \in S}

\* Lines 216-222: the index in `oth` of the first node `first` matches, or 0.
RECURSIVE scanOthers(_, _, _, _)
scanOthers(ns, oth, first, i) ==
    IF i > Len(oth) THEN 0
    ELSE IF /\ ns[first].val = ns[oth[i]].val
            /\ ns[first].hash = ns[oth[i]].hash
            /\ ns[first].level = ns[oth[i]].level
         THEN i
         ELSE scanOthers(ns, oth, first, i + 1)

\* redirectFrom without line 234: the parent is recorded but not repointed.
RECURSIVE redirectFrom_NoRepoint(_, _, _)
redirectFrom_NoRepoint(ns, ps, other) ==
    IF ps = <<>> THEN ns
    ELSE redirectFrom_NoRepoint(
             [ns EXCEPT ![other].parents = Append(@, Head(ps))], Tail(ps), other)

\* The loop of redirect, lines 233-236, over the parents `ps` of the victim.
RECURSIVE redirectFrom(_, _, _)
redirectFrom(ns, ps, other) ==
    IF ps = <<>> THEN ns
    ELSE LET parent == Head(ps)
             ns1 == [ns EXCEPT ![parent].children = other]
             ns2 == [ns1 EXCEPT ![other].parents = Append(@, parent)]
         IN  redirectFrom(ns2, Tail(ps), other)

redirectPanics(ns, t) == ns[t].parents = <<>>

redirect(ns, t, other) == redirectFrom(ns, ns[t].parents, other)

\* One iteration of the loop of lines 214-226, for `first`:
\* the store and `others` after it, the target of the redirect (Nil if none),
\* and whether redirect panicked.
examine(ns, oth, first) ==
    LET i == scanOthers(ns, oth, first, 1)
    IN  IF i = 0
        THEN [nodes |-> ns, others |-> Append(oth, first), target |-> Nil,
              panic |-> FALSE]
        ELSE IF redirectPanics(ns, first)
        THEN [nodes |-> ns, others |-> oth, target |-> oth[i], panic |-> TRUE]
        ELSE [nodes |-> redirect(ns, first, oth[i]), others |-> oth,
              target |-> oth[i], panic |-> FALSE]

\* Lines 154-172: the annotation, and the loop variable set.
OptimiseStart ==
    /\ pc = "build"
    /\ nodes' = annotate(nodes)
    /\ built' = nodes
    /\ j' = nodes'[Root].height - 1
    /\ pc' = "optimise"
    /\ lastPut' = "none"
    /\ UNCHANGED <<idc, vocab, firsts, others, redirects, output, up, an>>

\* Lines 173-181 and 205-213: the nodes of height j, enumerated in some order
\* and split into firsts and others.
LevelStart ==
    /\ pc = "optimise"
    /\ j >= 0
    /\ \E level \in Orders(collectNodesOfHeightX(nodes, Root, j)) :
          /\ firsts' = SelectSeq(level, LAMBDA el : eligible(nodes, el))
          /\ others' = SelectSeq(level, LAMBDA el : ~eligible(nodes, el))
    /\ pc' = "level"
    /\ UNCHANGED <<nodes, idc, vocab, lastPut, j, redirects, built, output, up, an>>

\* Lines 214-226, one first child.
ProcessFirst ==
    /\ pc = "level"
    /\ firsts # <<>>
    /\ LET first == Head(firsts)
           r == examine(nodes, others, first)
       IN  /\ nodes' = r.nodes
           /\ others' = r.others
           /\ redirects' = IF r.target = Nil THEN redirects
                           ELSE Append(redirects, <<first, r.target>>)
           /\ pc' = IF r.panic THEN "panic" ELSE "level"
    /\ firsts' = Tail(firsts)
    /\ UNCHANGED <<idc, vocab, lastPut, j, built, output, up, an>>

\* processLevel returns; line 173, j--.
LevelEnd ==
    /\ pc = "level"
    /\ firsts = <<>>
    /\ j' = j - 1
    /\ others' = <<>>
    /\ pc' = "optimise"
    /\ UNCHANGED <<nodes, idc, vocab, lastPut, firsts, redirects, built, output, up, an>>

\* Line 173, j < 0: Optimise returns.
OptimiseEnd ==
    /\ pc = "optimise"
    /\ j < 0
    /\ pc' = "optimised"
    /\ UNCHANGED <<nodes, idc, vocab, lastPut, j, firsts, others, redirects, built,
                   output, up, an>>

\* ----------------------------------------------------------------- Flatten
\* Slots are numbered from 0 as in the code: slot i is array[i + 1].
\* The loop of lines 339-343 over the parents `ps` of the node put in `slot`.
RECURSIVE patchParents(_, _, _)
patchParents(st, ps, slot) ==
    IF ps = <<>> THEN st
    ELSE LET parent == Head(ps)
             st1 == IF parent \in st.an
                    THEN [st EXCEPT !.array[st.up[parent] + 1].children = slot]
                    ELSE st
         IN  patchParents(st1, Tail(ps), slot)

\* st = [array, up, an]: the outarray, unfilledParents and allocatedNodes.
RECURSIVE addNodesOfLevelX(_, _, _, _), addFrom(_, _, _, _)
addNodesOfLevelX(ns, st, t, level) ==
    IF ns[t].level = level
    THEN IF t \in st.an THEN st
         ELSE LET slot == Len(st.array)
                  st1 == [array |-> Append(st.array,
                                       [val |-> ns[t].val, children |-> 0,
                                        eol |-> ns[t].next = Nil]),
                          up |-> (t :> slot) @@ st.up,
                          an |-> st.an \cup {t}]
              IN  patchParents(st1, ns[t].parents, slot)
    ELSE IF ns[t].children # Nil /\ ns[ns[t].children].firstchild
         THEN addFrom(ns, st, ns[t].children, level)
         ELSE st

\* The loop of lines 348-350, from `child` on.
addFrom(ns, st, child, level) ==
    IF child = Nil THEN st
    ELSE addFrom(ns, addNodesOfLevelX(ns, st, child, level), ns[child].next, level)

\* The loop of lines 307-314, from pass i on.
RECURSIVE flattenFrom(_, _, _)
flattenFrom(ns, st, i) ==
    LET st1 == addNodesOfLevelX(ns, st, Root, i)
    IN  IF Len(st1.array) = Len(st.array) THEN st1
        ELSE flattenFrom(ns, st1, i + 1)

Flatten ==
    /\ pc = "optimised"
    /\ LET st == flattenFrom(nodes, [array |-> <<>>, up |-> <<>>, an |-> {}], 0)
       IN  /\ output' = st.array
           /\ up' = st.up
           /\ an' = st.an
    /\ pc' = "done"
    /\ UNCHANGED <<nodes, idc, vocab, lastPut, j, firsts, others, redirects, built>>

\* ----------------------------------------------------------- specifications
Init ==
    /\ nodes = <<NewDAWG>>
    /\ idc = 0
    /\ vocab = {}
    /\ lastPut = "none"
    /\ pc = "build"
    /\ j = 0
    /\ firsts = <<>>
    /\ others = <<>>
    /\ redirects = <<>>
    /\ built = <<>>
    /\ output = <<>>
    /\ up = <<>>
    /\ an = {}

Pipeline ==
    \/ OptimiseStart
    \/ LevelStart
    \/ ProcessFirst
    \/ LevelEnd
    \/ OptimiseEnd
    \/ Flatten

\* Every vocabulary of at most MaxWords words of at most MaxLen letters, its
\* words put in any order, any number of times.
PutWord ==
    \E s \in Words : Cardinality(vocab \cup {s}) <= MaxWords /\ Put(s)

Next == PutWord \/ Pipeline

Spec == Init /\ [][Next]_vars

\* The vocabularies of Corpora, their words put in any order.
PutCorpusWord ==
    \E s \in CorpusWords :
        /\ \E V \in Corpora : vocab \cup {s} \subseteq V
        /\ Put(s)

CorpusNext == PutCorpusWord \/ Pipeline

CorpusSpec == Init /\ [][CorpusNext]_vars

\* ---------------------------------------------------- reading the structures
\* The nodes reachable from t through children and next pointers.
RECURSIVE ReachFrom(_, _)
ReachFrom(ns, t) ==
    IF t = Nil THEN {}
    ELSE {t} \cup ReachFrom(ns, ns[t].children) \cup ReachFrom(ns, ns[t].next)

Reach(ns) == ReachFrom(ns, Root)

\* What is reachable from t, as a value: its rune, its children chain and the
\* rest of its sibling chain.
RECURSIVE Shape(_, _)
Shape(ns, t) ==
    IF t = Nil THEN <<>>
    ELSE <<ns[t].val, Shape(ns, ns[t].children), Shape(ns, ns[t].next)>>

\* The code points of an input string, as Put and put decode them.
RECURSIVE RunesOf(_)
RunesOf(s) ==
    IF Len(s) = 0 THEN <<>>
    ELSE LET d == DecodeRuneInString(s)
         IN  <<d[1]>> \o RunesOf(Tail0(s, d[2]))

\* Lines 439-449: the slots of the children of slot i.  A run that leaves the
\* array ends there.
RECURSIVE runFrom(_, _)
runFrom(o, jx) ==
    IF jx >= Len(o) THEN <<>>
    ELSE IF o[jx + 1].eol THEN <<jx>>
    ELSE <<jx>> \o runFrom(o, jx + 1)

childrenRun(o, i) ==
    LET jx == o[i + 1].children
    IN  IF jx = 0 THEN <<>> ELSE runFrom(o, jx)

\* Whether the runes w are spelled by a path of the array that starts at slot i.
RECURSIVE Spelled(_, _, _)
Spelled(o, i, w) ==
    \/ w = <<>>
    \/ \E k \in Range(childrenRun(o, i)) :
          o[k + 1].val = Head(w) /\ Spelled(o, k, Tail(w))

\* Optimise with every map enumerated in the order its keys were added, the
\* order of the traversal of collectNodesOfHeightX.
RECURSIVE collectInOrder(_, _, _, _), collectInOrderFrom(_, _, _, _)
collectInOrder(ns, t, height, acc) ==
    IF ns[t].height = height
    THEN IF t \in Range(acc) THEN acc ELSE Append(acc, t)
    ELSE IF ns[t].height > height
         THEN collectInOrderFrom(ns, ns[t].children, height, acc)
         ELSE acc

collectInOrderFrom(ns, child, height, acc) ==
    IF child = Nil THEN acc
    ELSE collectInOrderFrom(ns, ns[child].next, height,
                            collectInOrder(ns, child, height, acc))

RECURSIVE processLevelInOrder(_, _, _)
processLevelInOrder(ns, fs, oth) ==
    IF fs = <<>> THEN ns
    ELSE LET r == examine(ns, oth, Head(fs))
         IN  IF r.panic THEN ns
             ELSE processLevelInOrder(r.nodes, Tail(fs), r.others)

RECURSIVE optimiseFrom(_, _)
optimiseFrom(ns, h) ==
    IF h < 0 THEN ns
    ELSE LET level == collectInOrder(ns, Root, h, <<>>)
         IN  optimiseFrom(
                 processLevelInOrder(ns,
                     SelectSeq(level, LAMBDA el : eligible(ns, el)),
                     SelectSeq(level, LAMBDA el : ~eligible(ns, el))),
                 h - 1)

OptimiseInOrder(ns) ==
    LET a == annotate(ns) IN optimiseFrom(a, a[Root].height - 1)

NonRoot == 2..Len(nodes)
Targets == {redirects[k][2] : k \in DOMAIN redirects}

\* ------------------------------------------------------------------ claims
\* C1: round-trip membership.  When Flatten has run, every word Put was
\* called with is spelled by a path of the array from the root record (slot 0)
\* through children runs.
C1_RoundTrip ==
    pc = "done" => \A w \in vocab : Spelled(output, 0, RunesOf(w))

\* C2: insertion is idempotent.  A Put of a word that was put before leaves
\* the store (every node and every field of it) and the id counter as they
\* were.
C2_Idempotent ==
    [][\A s \in vocab : Put(s) => (nodes' = nodes /\ idc' = idc)]_vars

\* C2, witness: a word has just been put again, into a trie with siblings.
C2_Witness ==
    /\ lastPut = "again"
    /\ \E n \in NonRoot : nodes[n].next # Nil

\* C3: Put("") is a no-op.  A Put of the empty string, in any state of the
\* trie, leaves the store and the id counter as they were.
C3_EmptyNoOp ==
    [][Put(<<>>) => (nodes' = nodes /\ idc' = idc)]_vars

\* C4: merge soundness.  Two nodes have equal hashes exactly when what is
\* reachable from them in the trie (children chain and remaining sibling
\* chain) is identical, and so the victim and the target of every redirect
\* have the same shape.
C4_MergeSound ==
    pc # "build" =>
        /\ \A x, y \in DOMAIN built :
              (nodes[x].hash = nodes[y].hash) <=> (Shape(built, x) = Shape(built, y))
        /\ \A k \in DOMAIN redirects :
              Shape(built, redirects[k][1]) = Shape(built, redirects[k][2])

\* C5: Flatten gives every node reachable from the root exactly one slot.
C5_OneSlotEach ==
    pc = "done" =>
        /\ Reach(nodes) \subseteq an
        /\ Len(output) = Cardinality(an)
        /\ \A x, y \in an : x # y => up[x] # up[y]

\* C6: minimisation is deterministic.  Whatever orders the maps were
\* enumerated in, Optimise ends with the children pointers and parents sets
\* that the run enumerating them in insertion order ends with.
C6_Deterministic ==
    pc = "optimised" =>
        LET ref == OptimiseInOrder(built)
        IN  \A n \in DOMAIN nodes :
               /\ nodes[n].children = ref[n].children
               /\ Range(nodes[n].parents) = Range(ref[n].parents)

\* C7: height monotonicity.  Once the heights are computed, and after every
\* merge, every node of the children chain of a reachable node is lower than
\* that node.
C7_HeightMonotone ==
    pc \notin {"build", "panic"} =>
        \A P \in Reach(nodes) :
            \A C \in Range(Chain(nodes, nodes[P].children)) :
                nodes[C].height < nodes[P].height

\* C8: parent consistency.  After every merge and when Optimise is over, each
\* parent recorded in the parents of a node that was the target of a redirect
\* has that node for its children pointer.
C8_ParentConsistency ==
    \A T \in Targets :
        \A i \in DOMAIN nodes[T].parents :
            nodes[nodes[T].parents[i]].children = T

\* C8, witness: Optimise is over and some target has two parents or more.
C8_Witness ==
    /\ pc = "optimised"
    /\ \E T \in Targets : Len(nodes[T].parents) >= 2

\* C9 as stated: before Optimise, every node but the root has exactly one
\* parent, and the root has none.
C9_OneParentEach ==
    pc = "build" =>
        /\ nodes[Root].parents = <<>>
        /\ \A n \in NonRoot : Len(nodes[n].parents) = 1

\* C9, amended: before Optimise, every first child has exactly one parent,
\* the node whose children pointer it is; the root and every node that is
\* not a first child have none.
C9_FirstChildrenOneParent ==
    pc = "build" =>
        /\ nodes[Root].parents = <<>>
        /\ \A n \in NonRoot :
              IF nodes[n].firstchild
              THEN /\ Len(nodes[n].parents) = 1
                   /\ nodes[nodes[n].parents[1]].children = n
              ELSE nodes[n].parents = <<>>

\* C9, witness: a trie with a first child and a later sibling of it.
C9_Witness ==
    /\ pc = "build"
    /\ \E n, m \in NonRoot :
          nodes[n].firstchild /\ nodes[n].next = m /\ ~nodes[m].firstchild

\* A step of Optimise after its annotation passes.
OptimiseStep == LevelStart \/ ProcessFirst \/ LevelEnd \/ OptimiseEnd

\* C10: redirect never panics.  Optimise never calls redirect on a node
\* without parents, in any enumeration order, for any vocabulary (the empty
\* one too), and until it has returned it always has a next step to take.
C10_NoPanic ==
    /\ pc # "panic"
    /\ \A k \in DOMAIN redirects : nodes[redirects[k][1]].parents # <<>>
    /\ pc \in {"optimise", "level"} => ENABLED OptimiseStep

\* C10, witness: Optimise has run to its end and has called redirect.
C10_Witness ==
    /\ pc = "optimised"
    /\ redirects # <<>>
====
